---- MODULE Spec2Model ----
(***************************************************************************)
(* Field sampling of PARCELS (src/parcels/field.py): time-index            *)
(* resolution, cached spatial interpolators, temporal blending, unit       *)
(* conversion and periodic halo extension of one Field object.             *)
(*                                                                         *)
(* Numbers.  Coordinates and times are integers.  Sampled values are exact *)
(* rationals <<n, d>> (d > 0, lowest terms) so that the divisions of the   *)
(* interpolation weights and of the unit converters are computed, not      *)
(* assumed; <<0, 0>> is the floating-point NaN and propagates through      *)
(* every arithmetic operation.  Rounding of float32/float64 is not         *)
(* modelled.  Array indices are 0-based as in the source; TLA+ sequences   *)
(* are 1-based, so element i of array a is a[i + 1].                       *)
(***************************************************************************)
EXTENDS Integers, Sequences, FiniteSets, TLC

VARIABLES
    time,                      \* Field.time
    lon,                       \* Field.lon
    lat,                       \* Field.lat
    data,                      \* Field.data, data[t + 1][j + 1][i + 1] on axes (time, lat, lon)
    units,                     \* Field.units: the converter variant
    allow_time_extrapolation,  \* Field.allow_time_extrapolation
    interpolator_cache,        \* Field.interpolator_cache, least recently used first
    time_index_cache,          \* Field.time_index_cache, least recently used first
    call,                      \* the last call made on the Field and its arguments
    result                     \* what that call returned or raised

vars == <<time, lon, lat, data, units, allow_time_extrapolation,
          interpolator_cache, time_index_cache, call, result>>

---------------------------------------------------------------------------
(* Bounds of the model *)

MaxTime == 3          \* SpecTime: time-array entries are drawn from 0..MaxTime
MaxTimeLen == 3       \* SpecTime: the longest time array
MaxHalo == 2          \* SpecHalo: halo sizes are drawn from 0..MaxHalo
MaxAxisLen == 9       \* SpecHalo: no halo is added that makes an axis longer than this
MaxLonLen == 5        \* Spec: no halo is added that makes lon longer than this

---------------------------------------------------------------------------
(* Exact arithmetic on sampled values *)

Abs(n) == IF n < 0 THEN -n ELSE n

RECURSIVE Gcd(_, _)
Gcd(a, b) == IF b = 0 THEN a ELSE Gcd(b, a % b)

NaN == <<0, 0>>

IsNaN(q) == q[2] = 0

\* n / d in lowest terms with a positive denominator; x / 0 is NaN
Q(n, d) ==
    IF d = 0 THEN NaN
    ELSE LET g == Gcd(Abs(n), Abs(d))
             s == IF d < 0 THEN -1 ELSE 1
         IN  <<(s * n) \div g, (s * d) \div g>>

QInt(n) == <<n, 1>>

QAdd(a, b) == IF IsNaN(a) \/ IsNaN(b) THEN NaN ELSE Q(a[1] * b[2] + b[1] * a[2], a[2] * b[2])

QSub(a, b) == IF IsNaN(a) \/ IsNaN(b) THEN NaN ELSE Q(a[1] * b[2] - b[1] * a[2], a[2] * b[2])

QMul(a, b) == IF IsNaN(a) \/ IsNaN(b) THEN NaN ELSE Q(a[1] * b[1], a[2] * b[2])

QDiv(a, b) == IF IsNaN(a) \/ IsNaN(b) THEN NaN ELSE Q(a[1] * b[2], a[2] * b[1])

QLe(a, b) == a[1] * b[2] <= b[1] * a[2]

QLt(a, b) == a[1] * b[2] < b[1] * a[2]

---------------------------------------------------------------------------
(* cachetools.LRUCache(maxsize=2) behind @cachedmethod: a sequence of      *)
(* [key, val] entries, least recently used first.                          *)

CacheMaxsize == 2

CacheKeys(c) == {c[k].key : k \in 1..Len(c)}

CacheHas(c, key) == key \in CacheKeys(c)

\* variant that returns the oldest entry whatever the key
CacheGet_Oldest(c, key) == c[1].val

CacheGet(c, key) == LET k == CHOOSE k \in 1..Len(c) : c[k].key = key IN c[k].val

\* variant in which a hit does not count as a use
CacheTouch_NoMove(c, key) == c

\* a hit makes the entry the most recently used one
CacheTouch(c, key) ==
    LET k == CHOOSE k \in 1..Len(c) : c[k].key = key
    IN  SelectSeq(c, LAMBDA e : e.key # key) \o <<c[k]>>

\* storing a new key evicts the least recently used entry of a full cache
CachePut(c, key, val) ==
    LET d == IF Len(c) >= CacheMaxsize THEN Tail(c) ELSE c
    IN  Append(d, [key |-> key, val |-> val])

---------------------------------------------------------------------------
(* Results of a call: a value, an index, or one of the two typed errors    *)
(* with the fields the error object carries.                               *)

\* the text of a KernelError: the particle's state, time and dt, then the
\* optional msg as its format and the values formatted into it
NoMessage == [state |-> 0, time |-> 0, dt |-> 0,
              text |-> "", name |-> "", a |-> 0, b |-> 0, c |-> 0]

NoResult == [kind |-> "none", val |-> QInt(0), idx |-> 0, t |-> 0, x |-> 0, y |-> 0,
             message |-> NoMessage, dVdx |-> <<>>, dVdy |-> <<>>,
             time |-> <<>>, lon |-> <<>>, lat |-> <<>>]

\* a particle as the recovery kernels read it; exception = NoResult is None
NoParticle == [state |-> 0, lon |-> 0, lat |-> 0, depth |-> 0, time |-> 0, dt |-> 0,
               exception |-> NoResult]

NoCall == [op |-> "none", t |-> 0, x |-> 0, y |-> 0, v |-> <<0, 1>>,
           zonal |-> FALSE, meridional |-> FALSE, halosize |-> 0,
           lon |-> <<>>, lat |-> <<>>, data |-> <<>>, vmin |-> <<>>, vmax |-> <<>>,
           code |-> 0, particle |-> NoParticle, olon |-> <<>>, olat |-> <<>>,
           odepth |-> <<>>, timerange |-> <<>>, lonrange |-> <<>>, latrange |-> <<>>]

Value(v) == [NoResult EXCEPT !.kind = "value", !.val = v]

Index(i) == [NoResult EXCEPT !.kind = "index", !.idx = i]

\* TimeExtrapolationError(time, field=self)
TimeExtrapolationError(t) == [NoResult EXCEPT !.kind = "TimeExtrapolationError", !.t = t]

\* FieldSamplingError(x, y, field=self)
FieldSamplingError(x, y) == [NoResult EXCEPT !.kind = "FieldSamplingError", !.x = x, !.y = y]

---------------------------------------------------------------------------
(* Field.time_index *)

\* numpy argmin of a boolean array that holds a False: the 0-based position
\* of its first False
ArgMin(mask) == (CHOOSE k \in 1..Len(mask) :
                    ~mask[k] /\ \A m \in 1..(k - 1) : mask[m]) - 1

\* variant that checks the lower end of the time range only
time_index_body_NoUpper(t) ==
    IF ~allow_time_extrapolation /\ t < time[1]
    THEN TimeExtrapolationError(t)
    ELSE LET mask == [k \in 1..Len(time) |-> time[k] <= t]
         IN  IF \A k \in 1..Len(time) : mask[k]
             THEN Index(Len(time) - 1)
             ELSE IF \E k \in 1..Len(time) : mask[k]
                  THEN Index(ArgMin(mask) - 1)
                  ELSE Index(0)

\* variant that compares with time < t instead of time <= t
time_index_body_Strict(t) ==
    IF ~allow_time_extrapolation /\ (t < time[1] \/ t > time[Len(time)])
    THEN TimeExtrapolationError(t)
    ELSE LET mask == [k \in 1..Len(time) |-> time[k] < t]
         IN  IF \A k \in 1..Len(time) : mask[k]
             THEN Index(Len(time) - 1)
             ELSE IF \E k \in 1..Len(time) : mask[k]
                  THEN Index(ArgMin(mask) - 1)
                  ELSE Index(0)

\* variant that returns argmin() without the - 1
time_index_body_NoMinusOne(t) ==
    IF ~allow_time_extrapolation /\ (t < time[1] \/ t > time[Len(time)])
    THEN TimeExtrapolationError(t)
    ELSE LET mask == [k \in 1..Len(time) |-> time[k] <= t]
         IN  IF \A k \in 1..Len(time) : mask[k]
             THEN Index(Len(time) - 1)
             ELSE IF \E k \in 1..Len(time) : mask[k]
                  THEN Index(ArgMin(mask))
                  ELSE Index(0)

\* variant without the any() guard: argmin() - 1 of an all-False mask is
\* -1, which Python indexing reads as the last slice
time_index_body_NoAnyGuard(t) ==
    IF ~allow_time_extrapolation /\ (t < time[1] \/ t > time[Len(time)])
    THEN TimeExtrapolationError(t)
    ELSE LET mask == [k \in 1..Len(time) |-> time[k] <= t]
         IN  IF \A k \in 1..Len(time) : mask[k]
             THEN Index(Len(time) - 1)
             ELSE IF \E k \in 1..Len(time) : mask[k]
                  THEN Index(ArgMin(mask) - 1)
                  ELSE Index(Len(time) - 1)

\* the body of time_index, run on a miss of the cache
time_index_body(t) ==
    IF ~allow_time_extrapolation /\ (t < time[1] \/ t > time[Len(time)])
    THEN TimeExtrapolationError(t)
    ELSE LET mask == [k \in 1..Len(time) |-> time[k] <= t]
         IN  IF \A k \in 1..Len(time) : mask[k]
             THEN Index(Len(time) - 1)
             ELSE IF \E k \in 1..Len(time) : mask[k]
                  THEN Index(ArgMin(mask) - 1)
                  ELSE Index(0)

\* variant that stores an entry for the queried time also when the body
\* raises
time_index_StoresOnRaise(tc, t) ==
    IF CacheHas(tc, t)
    THEN [res |-> Index(CacheGet(tc, t)), cache |-> CacheTouch(tc, t)]
    ELSE LET r == time_index_body(t)
         IN  [res |-> r, cache |-> CachePut(tc, t, r.idx)]

\* @cachedmethod(time_index_cache): a hit returns the stored index, a miss
\* runs the body and stores what it returns; an exception stores nothing
time_index(tc, t) ==
    IF CacheHas(tc, t)
    THEN [res |-> Index(CacheGet(tc, t)), cache |-> CacheTouch(tc, t)]
    ELSE LET r == time_index_body(t)
         IN  IF r.kind = "index"
             THEN [res |-> r, cache |-> CachePut(tc, t, r.idx)]
             ELSE [res |-> r, cache |-> tc]

---------------------------------------------------------------------------
(* Unit converters: UnitConverter, Geographic, GeographicPolar *)

Converters == {"UnitConverter", "Geographic", "GeographicPolar"}

\* 1000. * 1.852 * 60. metres per degree
MetresPerDegree == (1000 * 1852 * 60) \div 1000

\* cos(y * pi / 180) for y a multiple of 20 degrees, to three decimals
CosTable == <<Q(1000, 1000), Q(940, 1000), Q(766, 1000), Q(500, 1000), Q(174, 1000),
              Q(-174, 1000), Q(-500, 1000), Q(-766, 1000), Q(-940, 1000), Q(-1000, 1000)>>

Cos(y) ==
    LET a == Abs(y) % 360
        b == IF a > 180 THEN 360 - a ELSE a
    IN  CosTable[(b \div 20) + 1]

\* variant whose polar correction multiplies by cos(latitude)
to_target_TimesCos(u, value, x, y) ==
    CASE u = "UnitConverter" -> value
      [] u = "Geographic" -> QDiv(value, QInt(MetresPerDegree))
      [] u = "GeographicPolar" -> QMul(QDiv(value, QInt(MetresPerDegree)), Cos(y))

\* UnitConverter.to_target, Geographic.to_target, GeographicPolar.to_target
to_target(u, value, x, y) ==
    CASE u = "UnitConverter" -> value
      [] u = "Geographic" -> QDiv(value, QInt(MetresPerDegree))
      [] u = "GeographicPolar" -> QDiv(QDiv(value, QInt(MetresPerDegree)), Cos(y))

\* to_source is defined by UnitConverter alone; Geographic and
\* GeographicPolar inherit it
to_source(u, value, x, y) == value

\* variant whose Geographic factor leaves out the 60 minutes per degree
ccode_to_target_NoMinutes(u, x, y) ==
    CASE u = "UnitConverter" -> QInt(1)
      [] u = "Geographic" -> QDiv(QInt(1), QInt((1000 * 1852) \div 1000))
      [] u = "GeographicPolar" -> QDiv(QInt(1), QMul(QInt(MetresPerDegree), Cos(y)))

\* the value of the C expression ccode_to_target returns: "1.0",
\* "(1.0 / (1000.0 * 1.852 * 60.0))" and
\* "(1.0 / (1000. * 1.852 * 60. * cos(y * M_PI / 180)))"
ccode_to_target(u, x, y) ==
    CASE u = "UnitConverter" -> QInt(1)
      [] u = "Geographic" -> QDiv(QInt(1), QInt(MetresPerDegree))
      [] u = "GeographicPolar" -> QDiv(QInt(1), QMul(QInt(MetresPerDegree), Cos(y)))

\* ccode_to_source is defined by UnitConverter alone: "1.0"
ccode_to_source(u, x, y) == QInt(1)

---------------------------------------------------------------------------
(* scipy RegularGridInterpolator((lat, lon), values, bounds_error=False,   *)
(* fill_value=nan, method='linear') as Field.interpolator2D configures it  *)

\* _find_indices: searchsorted(grid, x) - 1, clipped to 0..len(grid)-2
find_index(grid, x) ==
    LET i == Cardinality({k \in 1..Len(grid) : grid[k] < x}) - 1
    IN  IF i < 0 THEN 0
        ELSE IF i > Len(grid) - 2 THEN Len(grid) - 2 ELSE i

\* (x - grid[i]) / (grid[i + 1] - grid[i]) as numerator and denominator
norm_distance(grid, i, x) == <<x - grid[i + 1], grid[i + 2] - grid[i + 1]>>

out_of_bounds(grid, x) == x < grid[1] \/ x > grid[Len(grid)]

\* the weight of one corner along one axis, np.where(ei == i, 1 - yi, yi),
\* as a numerator over the denominator of the normalised distance w
edge_weight(e, w) == IF e = 0 THEN w[2] - w[1] ELSE w[1]

\* calling the interpolator f at (y, x): NaN out of bounds, else the sum
\* over the four corners of the cell of value * weight
Interpolate(f, y, x) ==
    IF out_of_bounds(f.lat, y) \/ out_of_bounds(f.lon, x)
    THEN NaN
    ELSE LET j == find_index(f.lat, y)
             i == find_index(f.lon, x)
             wy == norm_distance(f.lat, j, y)
             wx == norm_distance(f.lon, i, x)
             corner(ej, ei) == f.values[j + ej + 1][i + ei + 1]
                                   * edge_weight(ej, wy) * edge_weight(ei, wx)
         IN  Q(corner(0, 0) + corner(0, 1) + corner(1, 0) + corner(1, 1), wy[2] * wx[2])

\* variant that builds every interpolator over the first slice
interpolator2D_body_FirstSlice(t_idx) == [lat |-> lat, lon |-> lon, values |-> data[1]]

\* the body of interpolator2D: an interpolator over the arrays the Field
\* holds at the time of the call
interpolator2D_body(t_idx) == [lat |-> lat, lon |-> lon, values |-> data[t_idx + 1]]

\* @cachedmethod(interpolator_cache)
interpolator2D(ic, t_idx) ==
    IF CacheHas(ic, t_idx)
    THEN [val |-> CacheGet(ic, t_idx), cache |-> CacheTouch(ic, t_idx)]
    ELSE LET f == interpolator2D_body(t_idx)
         IN  [val |-> f, cache |-> CachePut(ic, t_idx, f)]

\* variant that raises FieldSamplingError(y, x)
spatial_interpolation_Swapped(ic, tidx, y, x) ==
    LET f == interpolator2D(ic, tidx)
        val == Interpolate(f.val, y, x)
    IN  [res |-> IF IsNaN(val) THEN FieldSamplingError(y, x) ELSE Value(val),
         cache |-> f.cache]

\* Field.spatial_interpolation(tidx, y, x)
spatial_interpolation(ic, tidx, y, x) ==
    LET f == interpolator2D(ic, tidx)
        val == Interpolate(f.val, y, x)
    IN  [res |-> IF IsNaN(val) THEN FieldSamplingError(x, y) ELSE Value(val),
         cache |-> f.cache]

---------------------------------------------------------------------------
(* Field.eval *)

\* variant that weights by the distance to t1
blend_Reversed(f0, f1, t, t0, t1) == QAdd(f0, QMul(QSub(f1, f0), Q(t1 - t, t1 - t0)))

\* value = f0 + (f1 - f0) * ((time - t0) / (t1 - t0))
blend(f0, f1, t, t0, t1) == QAdd(f0, QMul(QSub(f1, f0), Q(t - t0, t1 - t0)))

\* variant that samples the first slice in space before it resolves the
\* time index
eval_SpaceFirst(tc, ic, t, x, y) ==
    LET probe == spatial_interpolation(ic, 0, y, x)
    IN  IF probe.res.kind # "value"
        THEN [res |-> probe.res, tcache |-> tc, icache |-> probe.cache]
        ELSE
        LET ti == time_index(tc, t)
            t_idx == ti.res.idx
        IN  IF ti.res.kind # "index"
            THEN [res |-> ti.res, tcache |-> ti.cache, icache |-> ic]
            ELSE IF t_idx < Len(time) - 1 /\ t > time[t_idx + 1]
            THEN LET s0 == spatial_interpolation(ic, t_idx, y, x)
                     s1 == spatial_interpolation(s0.cache, t_idx + 1, y, x)
                     value == blend(s0.res.val, s1.res.val, t, time[t_idx + 1], time[t_idx + 2])
                 IN  IF s0.res.kind # "value"
                     THEN [res |-> s0.res, tcache |-> ti.cache, icache |-> s0.cache]
                     ELSE IF s1.res.kind # "value"
                     THEN [res |-> s1.res, tcache |-> ti.cache, icache |-> s1.cache]
                     ELSE [res |-> Value(to_target(units, value, x, y)),
                           tcache |-> ti.cache, icache |-> s1.cache]
            ELSE LET s == spatial_interpolation(ic, t_idx, y, x)
                 IN  IF s.res.kind # "value"
                     THEN [res |-> s.res, tcache |-> ti.cache, icache |-> s.cache]
                     ELSE [res |-> Value(to_target(units, s.res.val, x, y)),
                           tcache |-> ti.cache, icache |-> s.cache]

\* t_idx = self.time_index(time) comes first and its exception leaves eval
\* before any spatial_interpolation
eval(tc, ic, t, x, y) ==
    LET ti == time_index(tc, t)
        t_idx == ti.res.idx
    IN  IF ti.res.kind # "index"
        THEN [res |-> ti.res, tcache |-> ti.cache, icache |-> ic]
        ELSE IF t_idx < Len(time) - 1 /\ t > time[t_idx + 1]
        THEN LET s0 == spatial_interpolation(ic, t_idx, y, x)
                 s1 == spatial_interpolation(s0.cache, t_idx + 1, y, x)
                 value == blend(s0.res.val, s1.res.val, t, time[t_idx + 1], time[t_idx + 2])
             IN  IF s0.res.kind # "value"
                 THEN [res |-> s0.res, tcache |-> ti.cache, icache |-> s0.cache]
                 ELSE IF s1.res.kind # "value"
                 THEN [res |-> s1.res, tcache |-> ti.cache, icache |-> s1.cache]
                 ELSE [res |-> Value(to_target(units, value, x, y)),
                       tcache |-> ti.cache, icache |-> s1.cache]
        ELSE LET s == spatial_interpolation(ic, t_idx, y, x)
             IN  IF s.res.kind # "value"
                 THEN [res |-> s.res, tcache |-> ti.cache, icache |-> s.cache]
                 ELSE [res |-> Value(to_target(units, s.res.val, x, y)),
                       tcache |-> ti.cache, icache |-> s.cache]

\* Field.ccode_convert: the factor the generated code multiplies with
ccode_convert(x, y) == ccode_to_target(units, x, y)

\* The C function temporal_interpolation_linear that the call generated by
\* ccode_eval names is not part of the sources; it is taken from the
\* specification's evaluation algorithm (4.2 step 2 and 4.4 steps 1-3):
\* the largest index i with time[i] <= t, 0 when there is none; when i is
\* not the last index and t > time[i], the bilinear values of slices i and
\* i+1 blended by (t - time[i]) / (time[i+1] - time[i]); else slice i
temporal_interpolation_linear(t, x, y) ==
    LET before == {i \in 0..(Len(time) - 1) : time[i + 1] <= t}
        i == IF before = {} THEN 0 ELSE CHOOSE k \in before : \A m \in before : m <= k
        bilinear(k) == Interpolate([lat |-> lat, lon |-> lon, values |-> data[k + 1]], y, x)
    IN  IF i # Len(time) - 1 /\ t > time[i + 1]
        THEN QAdd(bilinear(i),
                  QMul(QSub(bilinear(i + 1), bilinear(i)),
                       QDiv(QInt(t - time[i + 1]), QInt(time[i + 2] - time[i + 1]))))
        ELSE bilinear(i)

---------------------------------------------------------------------------
(* Field.add_periodic_halo *)

\* the Python slice a[-h:]: the last h elements, and the whole of a for h = 0
SliceLast(a, h) ==
    IF h = 0 \/ h >= Len(a) THEN a ELSE SubSeq(a, Len(a) - h + 1, Len(a))

\* the Python slice a[0:h]
SliceFirst(a, h) == IF h >= Len(a) THEN a ELSE SubSeq(a, 1, h)

Shifted(a, d) == [k \in 1..Len(a) |-> a[k] + d]

\* variant that shifts by the extent of the axis, without one spacing
halo_shift_Extent(coord) == coord[Len(coord)] - coord[1]

\* coord[-1] - 2 * coord[0] + coord[1]
halo_shift(coord) == coord[Len(coord)] - 2 * coord[1] + coord[2]

\* variant that extends the coordinate array on its lower side only
halo_coord_LeftOnly(coord, halosize) ==
    Shifted(SliceLast(coord, halosize), -halo_shift(coord)) \o coord

halo_coord(coord, halosize) ==
    Shifted(SliceLast(coord, halosize), -halo_shift(coord)) \o coord
        \o Shifted(SliceFirst(coord, halosize), halo_shift(coord))

\* variant that puts the first columns on the left and the last on the right
halo_zonal_Swapped(d, halosize) ==
    [t \in 1..Len(d) |-> [j \in 1..Len(d[t]) |->
        SliceFirst(d[t][j], halosize) \o d[t][j] \o SliceLast(d[t][j], halosize)]]

\* np.concatenate of the last columns, the data and the first columns
halo_zonal(d, halosize) ==
    [t \in 1..Len(d) |-> [j \in 1..Len(d[t]) |->
        SliceLast(d[t][j], halosize) \o d[t][j] \o SliceFirst(d[t][j], halosize)]]

\* np.concatenate of the last rows, the data and the first rows
halo_meridional(d, halosize) ==
    [t \in 1..Len(d) |->
        SliceLast(d[t], halosize) \o d[t] \o SliceFirst(d[t], halosize)]

add_periodic_halo(zonal, meridional, halosize) ==
    LET d1 == IF zonal THEN halo_zonal(data, halosize) ELSE data
        d2 == IF meridional THEN halo_meridional(d1, halosize) ELSE d1
    IN  [data |-> d2,
         lon |-> IF zonal THEN halo_coord(lon, halosize) ELSE lon,
         lat |-> IF meridional THEN halo_coord(lat, halosize) ELSE lat]

---------------------------------------------------------------------------
(* CentralDifferences and Field.gradient.  field_data is the transposed    *)
(* slice, field_data[x + 1][y + 1] on axes (lon, lat).                     *)

\* r * deg2rd = 6.371e6 * pi / 180 metres per degree, to the metre
MetresPerDegreeArc == 111195

\* dy = r * np.diff(lat) * deg2rd
cd_dy(la) == [k \in 1..(Len(la) - 1) |-> QInt(MetresPerDegreeArc * (la[k + 1] - la[k]))]

\* dx[x-1, y] = r * cos(lat[y] * deg2rd) * (lon[x] - lon[x-1]) * deg2rd
cd_dx(la, lo) ==
    [k \in 1..(Len(lo) - 1) |-> [y \in 1..Len(la) |->
        QMul(QInt(MetresPerDegreeArc * (lo[k + 1] - lo[k])), Cos(la[y]))]]

\* variant whose central difference divides by one cell width, not two
cd_dVdx_OneWidth(f, la, lo) ==
    LET dx == cd_dx(la, lo)
        n == Len(lo)
    IN  [x \in 1..n |-> [y \in 1..Len(la) |->
            IF x = 1 THEN QDiv(QInt(f[2][y] - f[1][y]), dx[1][y])
            ELSE IF x = n THEN QDiv(QInt(f[n][y] - f[n - 1][y]), dx[n - 1][y])
            ELSE QDiv(QInt(f[x + 1][y] - f[x - 1][y]), dx[x - 1][y])]]

\* dVdx: central differences over 2 * dx[x-1, y] away from the lon edges,
\* forward and backward differences on them
cd_dVdx(f, la, lo) ==
    LET dx == cd_dx(la, lo)
        n == Len(lo)
    IN  [x \in 1..n |-> [y \in 1..Len(la) |->
            IF x = 1 THEN QDiv(QInt(f[2][y] - f[1][y]), dx[1][y])
            ELSE IF x = n THEN QDiv(QInt(f[n][y] - f[n - 1][y]), dx[n - 1][y])
            ELSE QDiv(QInt(f[x + 1][y] - f[x - 1][y]), QMul(QInt(2), dx[x - 1][y]))]]

\* dVdy: central differences over 2 * dy[y-1] away from the lat edges,
\* forward and backward differences on them
cd_dVdy(f, la, lo) ==
    LET dy == cd_dy(la)
        m == Len(la)
    IN  [x \in 1..Len(lo) |-> [y \in 1..m |->
            IF y = 1 THEN QDiv(QInt(f[x][2] - f[x][1]), dy[1])
            ELSE IF y = m THEN QDiv(QInt(f[x][m] - f[x][m - 1]), dy[m - 1])
            ELSE QDiv(QInt(f[x][y + 1] - f[x][y - 1]), QMul(QInt(2), dy[y - 1]))]]

CentralDifferences(f, la, lo) == <<cd_dVdx(f, la, lo), cd_dVdy(f, la, lo)>>

\* np.transpose of a 2-D array
Transpose(a) == [p \in 1..Len(a[1]) |-> [q \in 1..Len(a) |-> a[q][p]]]

\* Field.gradient() without ranges: the data of the two Fields it returns,
\* on axes (time, lat, lon)
gradient ==
    LET grad(t) == CentralDifferences(Transpose(data[t]), lat, lon)
    IN  [dVdx |-> [t \in 1..Len(time) |-> Transpose(grad(t)[1])],
         dVdy |-> [t \in 1..Len(time) |-> Transpose(grad(t)[2])]]

\* indexing an array beyond its size
IndexError == [NoResult EXCEPT !.kind = "IndexError"]

\* the 0-based indices a range selects on a coordinate array:
\* range(np.where(coord >= range[0])[0][0],
\*       np.where(coord <= range[1])[0][-1] + 1), and every index for None
range_first(coord, r) ==
    IF r = <<>> THEN 0
    ELSE (CHOOSE k \in 1..Len(coord) :
              coord[k] >= r[1] /\ \A m \in 1..(k - 1) : coord[m] < r[1]) - 1

range_last(coord, r) ==
    IF r = <<>> THEN Len(coord) - 1
    ELSE (CHOOSE k \in 1..Len(coord) :
              coord[k] <= r[2] /\ \A m \in (k + 1)..Len(coord) : coord[m] > r[2]) - 1

\* coord[range(first, last + 1)]
range_select(coord, r) == SubSeq(coord, range_first(coord, r) + 1, range_last(coord, r) + 1)

\* self.data[t, :, :][np.ix_(lat_i, lon_i)] for the 0-based source index t
range_slice(t, lonrange, latrange) ==
    LET i0 == range_first(lon, lonrange)
        j0 == range_first(lat, latrange)
    IN  [j \in 1..Len(range_select(lat, latrange)) |->
            [i \in 1..Len(range_select(lon, lonrange)) |-> data[t + 1][j0 + j][i0 + i]]]

\* the central differences of source slice t over the selected sub-grid,
\* on axes (lat, lon)
range_grad(t, lonrange, latrange) ==
    LET g == CentralDifferences(Transpose(range_slice(t, lonrange, latrange)),
                                range_select(lat, latrange), range_select(lon, lonrange))
    IN  [dVdx |-> Transpose(g[1]), dVdy |-> Transpose(g[2])]

\* np.zeros(shape=(lat.size, lon.size))
zeros(nlat, nlon) == [j \in 1..nlat |-> [i \in 1..nlon |-> QInt(0)]]

\* Field.gradient(timerange, lonrange, latrange): the loop runs over the
\* source indices t of time_i and assigns dVdx[t, :, :] in arrays that
\* have time.size slices, so an index t >= time.size raises IndexError and
\* a slice no t names stays zero
gradient_range(timerange, lonrange, latrange) ==
    LET t0 == range_first(time, timerange)
        t1 == range_last(time, timerange)
        gtime == range_select(time, timerange)
        glon == range_select(lon, lonrange)
        glat == range_select(lat, latrange)
        slice(t, which) ==
            IF t0 <= t /\ t <= t1
            THEN IF which = "dVdx" THEN range_grad(t, lonrange, latrange).dVdx
                                   ELSE range_grad(t, lonrange, latrange).dVdy
            ELSE zeros(Len(glat), Len(glon))
    IN  IF t1 >= Len(gtime)
        THEN IndexError
        ELSE [NoResult EXCEPT
                 !.kind = "fields", !.time = gtime, !.lon = glon, !.lat = glat,
                 !.dVdx = [k \in 1..Len(gtime) |-> slice(k - 1, "dVdx")],
                 !.dVdy = [k \in 1..Len(gtime) |-> slice(k - 1, "dVdy")]]

---------------------------------------------------------------------------
(* Recovery kernels (src/parcels/kernels/error.py).  A particle is a       *)
(* record of the attributes the kernels read; particle.exception is a      *)
(* result record, NoResult standing for None.  An optional argument is     *)
(* <<>> when it is None and <<v>> otherwise.                               *)

ErrorCode == [Success |-> 0, Repeat |-> 1, Delete |-> 2, Error |-> 3,
              ErrorOutOfBounds |-> 4, ErrorTimeExtrapolation |-> 5]

\* Field.name of the Field under test
FieldName == "U"

\* the attributes set by the constructors of the two sampling errors
Attributes(kind) ==
    CASE kind = "FieldSamplingError" -> {"field", "x", "y"}
      [] kind = "TimeExtrapolationError" -> {"field", "time"}
      [] OTHER -> {}

\* the classes derived from KernelError, itself included
KernelErrors == {"KernelError", "OutOfBoundsError", "OutOfTimeError"}

\* reading an attribute the object does not have
AttributeError == [NoResult EXCEPT !.kind = "AttributeError"]

\* "%f" % None
TypeError == [NoResult EXCEPT !.kind = "TypeError"]

\* KernelError.__init__ as called by the class `kind`: state, time and dt
\* of the particle, then msg when it is given
KernelError(kind, particle, msg) ==
    [NoResult EXCEPT !.kind = kind,
                     !.message = [msg EXCEPT !.state = particle.state,
                                             !.time = particle.time,
                                             !.dt = particle.dt]]

\* recovery_kernel_error: msg is "Error: %s" % particle.exception when an
\* exception is set; its text is "<name> sampled at (x, y)" or
\* "<name> sampled outside time domain at time t"
recovery_kernel_error(particle) ==
    LET e == particle.exception
    IN  IF e.kind = "none"
        THEN KernelError("KernelError", particle, NoMessage)
        ELSE KernelError("KernelError", particle,
                 [NoMessage EXCEPT !.text = "Error: %s", !.name = FieldName,
                                   !.a = e.x, !.b = e.y, !.c = e.t])

\* Python truth of an optional number: None and 0 are false
Truthy(v) == v # <<>> /\ v # <<0>>

\* OutOfBoundsError.__init__(particle, lon=None, lat=None, depth=None,
\* field=None)
OutOfBoundsError(particle, olon, olat, depth, field) ==
    IF Truthy(olon) /\ Truthy(olat)
    THEN IF depth = <<>>
         THEN TypeError
         ELSE KernelError("OutOfBoundsError", particle,
                  [NoMessage EXCEPT !.text = "%s sampled at (%f, %f, %f)",
                                    !.name = IF field # <<>> THEN field[1] ELSE "Field",
                                    !.a = olon[1], !.b = olat[1], !.c = depth[1]])
    ELSE KernelError("OutOfBoundsError", particle,
             [NoMessage EXCEPT !.text = "Out-of-bounds sampling by particle at (%f, %f, %f)",
                               !.a = particle.lon, !.b = particle.lat, !.c = particle.depth])

\* OutOfTimeError.__init__(particle)
OutOfTimeError(particle) ==
    KernelError("OutOfTimeError", particle,
        [NoMessage EXCEPT !.text = "Field sampled outside time domain at time %f.",
                          !.a = particle.time])

\* recovery_kernel_out_of_bounds: error.z is read before OutOfBoundsError
\* is constructed
recovery_kernel_out_of_bounds(particle) ==
    LET error == particle.exception
    IN  IF error.kind = "none"
        THEN OutOfBoundsError(particle, <<>>, <<>>, <<>>, <<>>)
        ELSE IF ~({"x", "y", "z", "field"} \subseteq Attributes(error.kind))
        THEN AttributeError
        ELSE OutOfBoundsError(particle, <<error.x>>, <<error.y>>, <<error.z>>, <<FieldName>>)

recovery_kernel_time_extrapolation(particle) == OutOfTimeError(particle)

\* the codes recovery_map has an entry for
recovery_map_codes ==
    {ErrorCode.Error, ErrorCode.ErrorOutOfBounds, ErrorCode.ErrorTimeExtrapolation}

\* recovery_map[code](particle)
recovery_map(code, particle) ==
    CASE code = ErrorCode.Error -> recovery_kernel_error(particle)
      [] code = ErrorCode.ErrorOutOfBounds -> recovery_kernel_out_of_bounds(particle)
      [] code = ErrorCode.ErrorTimeExtrapolation -> recovery_kernel_time_extrapolation(particle)

---------------------------------------------------------------------------
(* The Field under test and the calls made on it *)

Time0 == <<0, 3, 6>>
Lon0 == <<0, 2, 4>>
Lat0 == <<0, 40>>

\* the input array of the constructor, already free of NaN
DataOf(nt, nlat, nlon) ==
    [t \in 1..nt |-> [j \in 1..nlat |-> [i \in 1..nlon |->
        8 * (t - 1) * (t - 1) + 3 * (j - 1) + (i - 1) * (i - 1) + 1]]]

\* query times: every array entry, a time inside each interval (a third and
\* two thirds of the way), one below and one above the array
QueryTimes == {Time0[k] : k \in 1..Len(Time0)}
                  \cup {Time0[1] - 1, Time0[1] + 1, Time0[Len(Time0)] - 1, Time0[Len(Time0)] + 1}

\* query positions: inside a cell, on the edges of the constructed domain,
\* beyond its upper lon edge and beyond its upper lat edge
QueryPositions == {<<1, 20>>, <<4, 0>>, <<5, 20>>, <<1, 60>>}

\* Field.__init__ with the given arrays
Construct(tm, lo, la, u, allow) ==
    /\ time = tm
    /\ lon = lo
    /\ lat = la
    /\ data = DataOf(Len(tm), Len(la), Len(lo))
    /\ units = u
    /\ allow_time_extrapolation = allow
    /\ interpolator_cache = <<>>
    /\ time_index_cache = <<>>
    /\ call = NoCall
    /\ result = NoResult

\* variant that tests `if vmin:` and `if vmax:`, which skips a limit of 0
zeroed_Falsy(e, vmin, vmax) ==
    LET e1 == IF vmin # <<>> /\ vmin # <<0>> /\ QLt(e, QInt(vmin[1])) THEN QInt(0) ELSE e
        e2 == IF vmax # <<>> /\ vmax # <<0>> /\ QLt(QInt(vmax[1]), e1) THEN QInt(0) ELSE e1
    IN  IF IsNaN(e2) THEN QInt(0) ELSE e2

\* data[data < vmin] = 0, data[data > vmax] = 0, data[isnan(data)] = 0 on
\* one element; an absent limit is <<>>, and every comparison with NaN is
\* false
zeroed(e, vmin, vmax) ==
    LET e1 == IF vmin # <<>> /\ QLt(e, QInt(vmin[1])) THEN QInt(0) ELSE e
        e2 == IF vmax # <<>> /\ QLt(QInt(vmax[1]), e1) THEN QInt(0) ELSE e1
    IN  IF IsNaN(e2) THEN QInt(0) ELSE e2

\* Field.__init__ with an input array of whole numbers and NaN, and
\* optional vmin and vmax
ConstructData(input, vmin, vmax) ==
    /\ time = Time0
    /\ lon = Lon0
    /\ lat = Lat0
    /\ data = [t \in 1..Len(input) |-> [j \in 1..Len(input[t]) |->
                   [i \in 1..Len(input[t][j]) |-> zeroed(input[t][j][i], vmin, vmax)[1]]]]
    /\ units = "UnitConverter"
    /\ allow_time_extrapolation = FALSE
    /\ interpolator_cache = <<>>
    /\ time_index_cache = <<>>
    /\ call = [NoCall EXCEPT !.op = "__init__", !.data = input, !.vmin = vmin, !.vmax = vmax]
    /\ result = NoResult

EvalCall(t, x, y) ==
    LET r == eval(time_index_cache, interpolator_cache, t, x, y)
    IN  /\ result' = r.res
        /\ time_index_cache' = r.tcache
        /\ interpolator_cache' = r.icache
        /\ call' = [NoCall EXCEPT !.op = "eval", !.t = t, !.x = x, !.y = y,
                                  !.lon = lon, !.lat = lat]
        /\ UNCHANGED <<time, lon, lat, data, units, allow_time_extrapolation>>

TimeIndexCall(t) ==
    LET r == time_index(time_index_cache, t)
    IN  /\ result' = r.res
        /\ time_index_cache' = r.cache
        /\ call' = [NoCall EXCEPT !.op = "time_index", !.t = t, !.lon = lon, !.lat = lat]
        /\ UNCHANGED <<time, lon, lat, data, units, allow_time_extrapolation,
                       interpolator_cache>>

HaloCall(zonal, meridional, halosize) ==
    LET r == add_periodic_halo(zonal, meridional, halosize)
    IN  /\ data' = r.data
        /\ lon' = r.lon
        /\ lat' = r.lat
        /\ result' = NoResult
        /\ call' = [NoCall EXCEPT !.op = "add_periodic_halo", !.zonal = zonal,
                                  !.meridional = meridional, !.halosize = halosize,
                                  !.lon = lon, !.lat = lat]
        /\ UNCHANGED <<time, units, allow_time_extrapolation,
                       interpolator_cache, time_index_cache>>

ToTargetCall(v, x, y) ==
    /\ result' = Value(to_target(units, v, x, y))
    /\ call' = [NoCall EXCEPT !.op = "to_target", !.v = v, !.x = x, !.y = y]
    /\ UNCHANGED <<time, lon, lat, data, units, allow_time_extrapolation,
                   interpolator_cache, time_index_cache>>

ToSourceCall(v, x, y) ==
    /\ result' = Value(to_source(units, v, x, y))
    /\ call' = [NoCall EXCEPT !.op = "to_source", !.v = v, !.x = x, !.y = y]
    /\ UNCHANGED <<time, lon, lat, data, units, allow_time_extrapolation,
                   interpolator_cache, time_index_cache>>

\* Field.__init__ with data a * lon + b * lat, moved by 5 per time slice
ConstructLinear(lo, la, a, b) ==
    /\ time = Time0
    /\ lon = lo
    /\ lat = la
    /\ data = [t \in 1..Len(Time0) |-> [j \in 1..Len(la) |-> [i \in 1..Len(lo) |->
                   a * lo[i] + b * la[j] + 5 * (t - 1)]]]
    /\ units = "UnitConverter"
    /\ allow_time_extrapolation = FALSE
    /\ interpolator_cache = <<>>
    /\ time_index_cache = <<>>
    /\ call = NoCall
    /\ result = NoResult

GradientCall ==
    /\ result' = [NoResult EXCEPT !.kind = "fields", !.dVdx = gradient.dVdx,
                                  !.dVdy = gradient.dVdy]
    /\ call' = [NoCall EXCEPT !.op = "gradient"]
    /\ UNCHANGED <<time, lon, lat, data, units, allow_time_extrapolation,
                   interpolator_cache, time_index_cache>>

GradientRangeCall(timerange, lonrange, latrange) ==
    /\ result' = gradient_range(timerange, lonrange, latrange)
    /\ call' = [NoCall EXCEPT !.op = "gradient_range", !.timerange = timerange,
                              !.lonrange = lonrange, !.latrange = latrange]
    /\ UNCHANGED <<time, lon, lat, data, units, allow_time_extrapolation,
                   interpolator_cache, time_index_cache>>

\* the driver looks up recovery_map[code] and calls it with the particle
RecoveryCall(code, particle) ==
    /\ code \in recovery_map_codes
    /\ result' = recovery_map(code, particle)
    /\ call' = [NoCall EXCEPT !.op = "recovery", !.code = code, !.particle = particle]
    /\ UNCHANGED <<time, lon, lat, data, units, allow_time_extrapolation,
                   interpolator_cache, time_index_cache>>

\* OutOfBoundsError(particle, lon, lat, depth) constructed by a caller
OutOfBoundsErrorCall(particle, olon, olat, odepth) ==
    /\ result' = OutOfBoundsError(particle, olon, olat, odepth, <<>>)
    /\ call' = [NoCall EXCEPT !.op = "OutOfBoundsError", !.particle = particle,
                              !.olon = olon, !.olat = olat, !.odepth = odepth]
    /\ UNCHANGED <<time, lon, lat, data, units, allow_time_extrapolation,
                   interpolator_cache, time_index_cache>>

---------------------------------------------------------------------------
(* Spec: one Field sampled by eval, and extended by a zonal halo at any     *)
(* moment                                                                  *)

Init == \E u \in Converters : \E allow \in BOOLEAN : Construct(Time0, Lon0, Lat0, u, allow)

Sample == \E t \in QueryTimes : \E p \in QueryPositions : EvalCall(t, p[1], p[2])

Extend ==
    \E h \in 1..MaxHalo :
        /\ Len(lon) + 2 * h <= MaxLonLen
        /\ HaloCall(TRUE, FALSE, h)

Next == Sample \/ Extend

Spec == Init /\ [][Next]_vars

---------------------------------------------------------------------------
(* SpecTime: time_index and eval on every strictly increasing time array   *)

TimeArrays ==
    {s \in UNION {[1..n -> 0..MaxTime] : n \in 1..MaxTimeLen} :
        \A k \in 1..(Len(s) - 1) : s[k] < s[k + 1]}

InitTime ==
    \E tm \in TimeArrays : \E allow \in BOOLEAN :
        Construct(tm, Lon0, Lat0, "UnitConverter", allow)

TimeQueries == (-1)..(MaxTime + 1)

NextTime ==
    \/ \E t \in TimeQueries : TimeIndexCall(t)
    \/ \E t \in TimeQueries : \E x \in {1, 5} : EvalCall(t, x, 20)

SpecTime == InitTime /\ [][NextTime]_vars

---------------------------------------------------------------------------
(* SpecHalo: add_periodic_halo with every flag combination and halo size,  *)
(* called any number of times, and evals in between                        *)

LonArrays == {Lon0, <<0, 2, 6>>}

InitHalo == \E lo \in LonArrays : Construct(Time0, lo, Lat0, "UnitConverter", TRUE)

NextHalo ==
    \/ \E z \in BOOLEAN : \E m \in BOOLEAN : \E h \in 0..MaxHalo :
           /\ Len(add_periodic_halo(z, m, h).lon) <= MaxAxisLen
           /\ Len(add_periodic_halo(z, m, h).lat) <= MaxAxisLen
           /\ HaloCall(z, m, h)
    \/ EvalCall(Time0[1], Lon0[1] + 1, Lat0[1] + 20)

SpecHalo == InitHalo /\ [][NextHalo]_vars

---------------------------------------------------------------------------
(* SpecUnits: the converters as pure functions of value and location, and  *)
(* evals that apply them                                                   *)

UnitValues == {Q(0, 1), Q(1, 1), Q(-3, 2), Q(MetresPerDegree, 1)}

UnitLatitudes == {-60, 0, 20, 80}

\* an exact hit, a time inside an interval and a time past the last entry
UnitTimes == {Time0[2], Time0[2] + 1, Time0[Len(Time0)] + 1}

InitUnits == \E u \in Converters : Construct(Time0, Lon0, Lat0, u, TRUE)

NextUnits ==
    \/ \E v \in UnitValues : \E y \in UnitLatitudes : \E x \in {0, 4} : ToTargetCall(v, x, y)
    \/ \E v \in UnitValues : \E y \in UnitLatitudes : \E x \in {0, 4} : ToSourceCall(v, x, y)
    \/ \E t \in UnitTimes : EvalCall(t, 1, 20)

SpecUnits == InitUnits /\ [][NextUnits]_vars

---------------------------------------------------------------------------
(* SpecData: construction from input arrays that hold NaN, negative, zero   *)
(* and positive values, with and without vmin and vmax, followed by evals  *)

InputOffsets == {-4, 0}

Cells == {<<1, 1, 1>>, <<2, 2, 3>>, <<3, 1, 2>>}

\* the values of DataOf moved by an offset, with NaN in one cell
InputArray(off, hole) ==
    [t \in 1..Len(Time0) |-> [j \in 1..Len(Lat0) |-> [i \in 1..Len(Lon0) |->
        IF <<t, j, i>> = hole THEN NaN
        ELSE QInt(DataOf(Len(Time0), Len(Lat0), Len(Lon0))[t][j][i] + off)]]]

Limits == {<<>>, <<-2>>, <<0>>, <<9>>}

InitData ==
    \E off \in InputOffsets : \E hole \in Cells : \E vmin \in Limits : \E vmax \in Limits :
        ConstructData(InputArray(off, hole), vmin, vmax)

NextData == \E t \in {0, 1, 6} : \E p \in {<<1, 20>>, <<5, 20>>} : EvalCall(t, p[1], p[2])

SpecData == InitData /\ [][NextData]_vars

---------------------------------------------------------------------------
(* SpecRecovery: evals that raise, and the recovery kernels called with a   *)
(* particle whose exception is None or the error the last eval raised      *)

\* positions inside the domain and outside it, with a coordinate of 0
RecoveryPositions == {<<1, 20>>, <<0, 60>>, <<5, 0>>, <<5, 20>>}

RecoveryTimes == {Time0[1], Time0[Len(Time0)] + 1}

\* particle.exception as the driver sets it: None, or the sampling error
\* the kernel raised
Exceptions ==
    {NoResult} \cup (IF result.kind \in {"FieldSamplingError", "TimeExtrapolationError"}
                     THEN {result} ELSE {})

Particles(code) ==
    {[state |-> code, lon |-> x, lat |-> 20, depth |-> 0, time |-> t, dt |-> 1,
      exception |-> e] : x \in {0, 5}, t \in RecoveryTimes, e \in Exceptions}

InitRecovery == Construct(Time0, Lon0, Lat0, "UnitConverter", FALSE)

NextRecovery ==
    \/ \E t \in RecoveryTimes : \E p \in RecoveryPositions : EvalCall(t, p[1], p[2])
    \/ \E code \in recovery_map_codes : \E p \in Particles(code) : RecoveryCall(code, p)
    \/ \E p \in Particles(ErrorCode.ErrorOutOfBounds) :
           \E olon \in {<<>>, <<0>>, <<5>>} : \E olat \in {<<>>, <<0>>, <<20>>} :
               OutOfBoundsErrorCall(p, olon, olat, <<0>>)

SpecRecovery == InitRecovery /\ [][NextRecovery]_vars

---------------------------------------------------------------------------
(* SpecGradient: gradient() of Fields that are linear in lon and lat, on   *)
(* uniformly and non-uniformly spaced grids, with evals and time_index     *)
(* calls around it                                                         *)

GradientLons == {<<0, 2, 4>>, <<0, 2, 4, 6>>, <<0, 2, 6>>}

GradientLats == {<<0, 20, 40>>, <<-20, 0, 20, 40>>, <<0, 20, 60>>}

Slopes == {-1, 2, 3}

InitGradient ==
    \E lo \in GradientLons : \E la \in GradientLats : \E a \in Slopes : \E b \in Slopes :
        ConstructLinear(lo, la, a, b)

GradientTimes == {Time0[1] - 1, Time0[1] + 1}

\* <<timerange, lonrange, latrange>>, <<>> for None: the first two time
\* slices, the last two, one inner slice on a sub-grid, and a sub-grid
\* over all times
GradientRanges ==
    {<<<<Time0[1], Time0[2]>>, <<>>, <<>>>>,
     <<<<Time0[1] + 1, Time0[3]>>, <<>>, <<>>>>,
     <<<<Time0[2], Time0[2]>>, <<2, 6>>, <<>>>>,
     <<<<>>, <<2, 6>>, <<0, 40>>>>}

NextGradient ==
    \/ GradientCall
    \/ \E t \in GradientTimes : EvalCall(t, 1, 20)
    \/ \E t \in GradientTimes : TimeIndexCall(t)
    \/ \E r \in GradientRanges : GradientRangeCall(r[1], r[2], r[3])

SpecGradient == InitGradient /\ [][NextGradient]_vars

---------------------------------------------------------------------------
(* Properties *)

LastIndex(a) == Len(a) - 1

OutsideTimeRange(t) == t < time[1] \/ t > time[Len(time)]

\* C1: with allow_time_extrapolation false, every time_index(t) and
\* eval(t, x, y) with t < time[0] or t > time[-1] raises
\* TimeExtrapolationError carrying t, whatever the caches hold, and no
\* query with time[0] <= t <= time[-1] raises it.
C1_TimeExtrapolationRaised ==
    call.op \in {"eval", "time_index"} =>
        /\ (~allow_time_extrapolation /\ OutsideTimeRange(call.t))
               => result = TimeExtrapolationError(call.t)
        /\ ~OutsideTimeRange(call.t) => result.kind # "TimeExtrapolationError"

\* a repeated out-of-range eval that raised while the time-index cache was full
C1_Witness ==
    /\ call.op = "eval"
    /\ ~allow_time_extrapolation
    /\ call.t > time[Len(time)]
    /\ Len(time_index_cache) = CacheMaxsize
    /\ result.kind = "TimeExtrapolationError"

\* the largest 0-based index i with time[i] <= t, and 0 when there is none
LargestIndexAtOrBefore(t) ==
    LET S == {i \in 0..LastIndex(time) : time[i + 1] <= t}
    IN  IF S = {} THEN 0 ELSE CHOOSE i \in S : \A k \in S : k <= i

\* C3: on a strictly increasing time array, a time_index(t) that does not
\* raise returns the largest index i with time[i] <= t, 0 when there is no
\* such index and len(time)-1 when t >= every entry; always a valid index.
C3_LargestIndex ==
    (call.op = "time_index" /\ result.kind = "index") =>
        /\ result.idx = LargestIndexAtOrBefore(call.t)
        /\ result.idx \in 0..LastIndex(time)
        /\ (\A k \in 1..Len(time) : time[k] > call.t) => result.idx = 0
        /\ (\A k \in 1..Len(time) : time[k] <= call.t) => result.idx = LastIndex(time)

\* a query strictly between two entries that resolved to an interior index
C3_Witness ==
    /\ call.op = "time_index"
    /\ result.kind = "index"
    /\ result.idx > 0
    /\ result.idx < LastIndex(time)
    /\ time[result.idx + 1] < call.t

\* the position lies in [lon[0], lon[-1]] x [lat[0], lat[-1]]
InDomain(x, y) ==
    /\ lon[1] <= x /\ x <= lon[Len(lon)]
    /\ lat[1] <= y /\ y <= lat[Len(lat)]

\* the spatial interpolation of slice t_idx over the Field's current arrays
SliceValue(t_idx, x, y) ==
    Interpolate([lat |-> lat, lon |-> lon, values |-> data[t_idx + 1]], y, x)

Converted(v) == Value(to_target(units, v, call.x, call.y))

\* every cached interpolator was built from the arrays the Field holds now
CachedInterpolatorsCurrent ==
    \A k \in 1..Len(interpolator_cache) :
        interpolator_cache[k].val =
            [lat |-> lat, lon |-> lon, values |-> data[interpolator_cache[k].key + 1]]

\* C2 as stated: with allow_time_extrapolation true and an in-domain
\* position, eval with t < time[0] returns the converted interpolation of
\* slice 0 alone and eval with t > time[-1] that of the last slice alone.
C2_ClampToBoundarySlice ==
    (call.op = "eval" /\ allow_time_extrapolation /\ InDomain(call.x, call.y)) =>
        /\ call.t < time[1] => result = Converted(SliceValue(0, call.x, call.y))
        /\ call.t > time[Len(time)]
               => result = Converted(SliceValue(LastIndex(time), call.x, call.y))

\* C2 amended: the same, for a Field whose cached interpolators were all
\* built from its current arrays (no add_periodic_halo since they were
\* cached).
C2_ClampWhenCacheCurrent == CachedInterpolatorsCurrent => C2_ClampToBoundarySlice

\* an extrapolated eval below the first time entry that returned a value
C2_Witness ==
    /\ call.op = "eval"
    /\ allow_time_extrapolation
    /\ call.t < time[1]
    /\ InDomain(call.x, call.y)
    /\ CachedInterpolatorsCurrent
    /\ result.kind = "value"
    /\ Len(interpolator_cache) = CacheMaxsize

\* C4 as stated: for every index i and in-domain position,
\* eval(time[i], x, y) is the converted interpolation of slice i alone.
C4_ExactHitNoBlend ==
    (call.op = "eval" /\ InDomain(call.x, call.y)) =>
        \A i \in 0..LastIndex(time) :
            call.t = time[i + 1] => result = Converted(SliceValue(i, call.x, call.y))

\* C4 amended: the same, for a Field whose cached interpolators were all
\* built from its current arrays.
C4_ExactHitWhenCacheCurrent == CachedInterpolatorsCurrent => C4_ExactHitNoBlend

\* an eval at the interior time entry that returned a value
C4_Witness ==
    /\ call.op = "eval"
    /\ call.t = time[2]
    /\ InDomain(call.x, call.y)
    /\ CachedInterpolatorsCurrent
    /\ result.kind = "value"
    /\ SliceValue(0, call.x, call.y) # SliceValue(1, call.x, call.y)
    /\ SliceValue(2, call.x, call.y) # SliceValue(1, call.x, call.y)

Between(v, a, b) == (QLe(a, v) /\ QLe(v, b)) \/ (QLe(b, v) /\ QLe(v, a))

\* C5 as stated: for time[i] < t < time[i+1] and an in-domain position,
\* eval is the conversion of f0 + (f1 - f0) * (t - time[i]) / (time[i+1] -
\* time[i]); the weight is strictly between 0 and 1 and the blended value
\* lies between f0 and f1.
C5_LinearBlend ==
    (call.op = "eval" /\ InDomain(call.x, call.y)) =>
        \A i \in 0..(LastIndex(time) - 1) :
            (time[i + 1] < call.t /\ call.t < time[i + 2]) =>
                LET f0 == SliceValue(i, call.x, call.y)
                    f1 == SliceValue(i + 1, call.x, call.y)
                    w == Q(call.t - time[i + 1], time[i + 2] - time[i + 1])
                    v == QAdd(f0, QDiv(QMul(QSub(f1, f0), QInt(call.t - time[i + 1])),
                                       QInt(time[i + 2] - time[i + 1])))
                IN  /\ result = Converted(v)
                    /\ QLt(QInt(0), w) /\ QLt(w, QInt(1))
                    /\ Between(v, f0, f1)

\* C5 amended: the same, for a Field whose cached interpolators were all
\* built from its current arrays.
C5_LinearBlendWhenCacheCurrent == CachedInterpolatorsCurrent => C5_LinearBlend

\* a blended eval a third of the way between two slices that differ
C5_Witness ==
    /\ call.op = "eval"
    /\ time[1] < call.t /\ call.t < time[2]
    /\ InDomain(call.x, call.y)
    /\ CachedInterpolatorsCurrent
    /\ result.kind = "value"
    /\ SliceValue(0, call.x, call.y) # SliceValue(1, call.x, call.y)

\* C6 as stated: an eval whose time is accepted raises FieldSamplingError,
\* carrying the queried x and y, exactly when the position is outside
\* [lon[0], lon[-1]] x [lat[0], lat[-1]]; on and inside the boundary it
\* returns a value that is not NaN.
C6_SamplingErrorIffOutside ==
    (call.op = "eval" /\ result.kind # "TimeExtrapolationError") =>
        /\ result.kind = "FieldSamplingError" <=> ~InDomain(call.x, call.y)
        /\ result.kind = "FieldSamplingError" => result = FieldSamplingError(call.x, call.y)
        /\ InDomain(call.x, call.y) => (result.kind = "value" /\ ~IsNaN(result.val))

\* C6 amended: the same, for a Field whose cached interpolators were all
\* built from its current arrays.
C6_SamplingErrorWhenCacheCurrent == CachedInterpolatorsCurrent => C6_SamplingErrorIffOutside

\* an eval beyond the upper lon edge that raised FieldSamplingError
C6_Witness ==
    /\ call.op = "eval"
    /\ call.x > lon[Len(lon)]
    /\ lat[1] <= call.y /\ call.y <= lat[Len(lat)]
    /\ CachedInterpolatorsCurrent
    /\ result = FieldSamplingError(call.x, call.y)

\* an eval on the upper lon edge and lower lat edge that returned a value
C6_WitnessBoundary ==
    /\ call.op = "eval"
    /\ call.x = lon[Len(lon)]
    /\ call.y = lat[1]
    /\ CachedInterpolatorsCurrent
    /\ result.kind = "value"

\* C7: on a Field whose arrays are as constructed, every eval returns or
\* raises what the same eval returns or raises with both caches empty.
C7_CacheTransparent ==
    (call.op = "eval" /\ lon = Lon0 /\ lat = Lat0) =>
        result = eval(<<>>, <<>>, call.t, call.x, call.y).res

\* an eval that returned a value with both caches full and its slice no
\* longer the only one cached
C7_Witness ==
    /\ call.op = "eval"
    /\ lon = Lon0 /\ lat = Lat0
    /\ result.kind = "value"
    /\ Len(interpolator_cache) = CacheMaxsize
    /\ Len(time_index_cache) = CacheMaxsize
    /\ ~CacheHas(interpolator_cache, 0)

\* C8: for each converter, to_source undoes to_target and to_target undoes
\* to_source, at every value and every location away from the poles.
C8_ToSourceInvertsToTarget ==
    /\ call.op = "to_target" => to_source(units, result.val, call.x, call.y) = call.v
    /\ call.op = "to_source" => to_target(units, result.val, call.x, call.y) = call.v

AddedPoints(flag) == IF flag THEN 2 * call.halosize ELSE 0

\* C9: add_periodic_halo with halo size h >= 0 lengthens lon by 2h when
\* zonal is set and lat by 2h when meridional is set, and leaves an axis
\* whose flag is unset at its length.
C9_HaloAddsTwiceHalosize ==
    call.op = "add_periodic_halo" =>
        /\ Len(lon) = Len(call.lon) + AddedPoints(call.zonal)
        /\ Len(lat) = Len(call.lat) + AddedPoints(call.meridional)

\* consecutive points of a are spaced by d
Spaced(a, d) == \A k \in 1..(Len(a) - 1) : a[k + 1] - a[k] = d

StrictlyIncreasing(a) == \A k \in 1..(Len(a) - 1) : a[k] < a[k + 1]

\* the halo points of coordinate array a are the last h points of the
\* array before, shifted down, and its first h points, shifted up, by
\* before[-1] - 2 * before[0] + before[1]
ShiftedCopies(before, a, h) ==
    LET n == Len(before)
        shift == before[n] - 2 * before[1] + before[2]
    IN  (1 <= h /\ h <= n) =>
            \A k \in 1..h : /\ a[k] = before[n - h + k] - shift
                            /\ a[h + n + k] = before[k] + shift

\* what C10 says of one axis extended from `before` to `a`
UniformAxisStaysUniform(before, a, h) ==
    (before[1] < before[2] /\ Spaced(before, before[2] - before[1])) =>
        /\ StrictlyIncreasing(a)
        /\ Spaced(a, before[2] - before[1])
        /\ ShiftedCopies(before, a, h)

\* C10: after add_periodic_halo on an axis that was uniformly spaced by d
\* and strictly increasing, the extended coordinate array is strictly
\* increasing and every pair of consecutive points, the two junctions
\* included, is spaced by d; the copies are shifted by
\* coord[-1] - 2 * coord[0] + coord[1].
C10_HaloKeepsUniformSpacing ==
    call.op = "add_periodic_halo" =>
        /\ call.zonal => UniformAxisStaysUniform(call.lon, lon, call.halosize)
        /\ call.meridional => UniformAxisStaysUniform(call.lat, lat, call.halosize)

\* a zonal halo of at least one point added to a uniformly spaced lon
C10_Witness ==
    /\ call.op = "add_periodic_halo"
    /\ call.zonal
    /\ call.halosize >= 1
    /\ Len(call.lon) > call.halosize
    /\ Spaced(call.lon, call.lon[2] - call.lon[1])
    /\ Len(lon) = Len(call.lon) + 2 * call.halosize

\* column i (1-based) of d over every time and latitude index
Column(d, i) == [t \in 1..Len(d) |-> [j \in 1..Len(d[t]) |-> d[t][j][i]]]

\* row j (1-based) of d over every time index
Row(d, j) == [t \in 1..Len(d) |-> d[t][j]]

\* columns of the grid that lie P apart in lon hold the same data
PeriodicColumns(P) ==
    \A i \in 1..Len(lon) : \A j \in 1..Len(lon) :
        lon[j] - lon[i] = P => Column(data, i) = Column(data, j)

\* rows of the grid that lie P apart in lat hold the same data
PeriodicRows(P) ==
    \A i \in 1..Len(lat) : \A j \in 1..Len(lat) :
        lat[j] - lat[i] = P => Row(data, i) = Row(data, j)

Uniform(a) == a[1] < a[2] /\ Spaced(a, a[2] - a[1])

\* n * spacing of a uniformly spaced coordinate array
Period(a) == Len(a) * (a[2] - a[1])

\* the data the constructor stored
Data0 == DataOf(Len(Time0), Len(Lat0), Len(Lon0))

\* C11 as stated: on a Field constructed with uniformly spaced axes, after
\* any number of add_periodic_halo calls the grid is periodic with the
\* period of the constructed axis: columns that lie Period(Lon0) apart
\* hold the same data, and so do rows that lie Period(Lat0) apart.
C11_PeriodicWithOriginalPeriod ==
    (call.op = "add_periodic_halo" /\ Uniform(lon) /\ Uniform(lat)) =>
        /\ PeriodicColumns(Period(Lon0))
        /\ PeriodicRows(Period(Lat0))

\* C11 amended: after each add_periodic_halo call the grid is periodic
\* with the period n * spacing of the uniformly spaced axis the call was
\* given (the original period when the axis had not been extended
\* before); on the first zonal call with 1 <= h <= n the left halo column
\* k holds original column n-h+k and the right halo column k holds
\* original column k.
C11_PeriodicWithPeriodBeforeCall ==
    call.op = "add_periodic_halo" =>
        /\ (call.zonal /\ Uniform(call.lon)) => PeriodicColumns(Period(call.lon))
        /\ (call.meridional /\ Uniform(call.lat)) => PeriodicRows(Period(call.lat))
        /\ (call.zonal /\ ~call.meridional /\ call.lon = Lon0 /\ call.lat = Lat0
               /\ 1 <= call.halosize /\ call.halosize <= Len(Lon0)) =>
              LET n == Len(Lon0)
                  h == call.halosize
              IN  /\ \A k \in 1..h : Column(data, k) = Column(Data0, n - h + k)
                  /\ \A k \in 1..n : Column(data, h + k) = Column(Data0, k)
                  /\ \A k \in 1..h : Column(data, h + n + k) = Column(Data0, k)

\* a first zonal halo of one column on the uniformly spaced lon, whose two
\* outer columns differ from their inner neighbours
C11_Witness ==
    /\ call.op = "add_periodic_halo"
    /\ call.zonal
    /\ call.lon = Lon0
    /\ call.halosize = 1
    /\ lon[Len(lon)] - lon[2] = Period(Lon0)
    /\ Column(data, 1) # Column(data, 2)
    /\ Column(data, Len(lon)) = Column(data, 2)

\* what C12 says of one input element e and the element d stored for it
StoredElement(e, d, vmin, vmax) ==
    LET below == ~IsNaN(e) /\ vmin # <<>> /\ e[1] < vmin[1] * e[2]
        above == ~IsNaN(e) /\ vmax # <<>> /\ e[1] > vmax[1] * e[2]
    IN  /\ (IsNaN(e) \/ below \/ above) => d = 0
        /\ ~(IsNaN(e) \/ below \/ above) => QInt(d) = e
        /\ d = 0 \/ ((vmin # <<>> => vmin[1] <= d) /\ (vmax # <<>> => d <= vmax[1]))

\* the constructor has just run and stored what C12 says for every element
ConstructedAsStated ==
    call.op = "__init__" =>
        \A t \in 1..Len(data) : \A j \in 1..Len(data[t]) : \A i \in 1..Len(data[t][j]) :
            /\ ~IsNaN(zeroed(call.data[t][j][i], call.vmin, call.vmax))
            /\ StoredElement(call.data[t][j][i], data[t][j][i], call.vmin, call.vmax)

\* C12: after construction from any input array with optional vmin and
\* vmax no element of data is NaN and every element is 0 or within
\* [vmin, vmax]: input elements below vmin, above vmax or NaN are stored
\* as 0 and all others unchanged; no eval changes data.
C12_DataZeroedAtConstruction ==
    /\ []ConstructedAsStated
    /\ [][call'.op = "eval" => data' = data]_vars

\* a Field built with both limits from an input that held NaN, an element
\* below vmin, an element above vmax and an element between them
C12_Witness ==
    /\ call.op = "__init__"
    /\ call.vmin = <<0>> /\ call.vmax = <<9>>
    /\ \E t \in 1..Len(data) : \E j \in 1..Len(data[t]) : \E i \in 1..Len(data[t][j]) :
          IsNaN(call.data[t][j][i]) /\ data[t][j][i] = 0
    /\ \E t \in 1..Len(data) : \E j \in 1..Len(data[t]) : \E i \in 1..Len(data[t][j]) :
          ~IsNaN(call.data[t][j][i]) /\ call.data[t][j][i][1] < 0 /\ data[t][j][i] = 0
    /\ \E t \in 1..Len(data) : \E j \in 1..Len(data[t]) : \E i \in 1..Len(data[t][j]) :
          call.data[t][j][i][1] > 9 /\ data[t][j][i] = 0
    /\ \E t \in 1..Len(data) : \E j \in 1..Len(data[t]) : \E i \in 1..Len(data[t][j]) :
          data[t][j][i] # 0 /\ QInt(data[t][j][i]) = call.data[t][j][i]

\* C13: in every state reached by add_periodic_halo calls (zonal,
\* meridional or both, any halo size) and eval calls, data has len(time)
\* slices, each of len(lat) rows, each of len(lon) elements.
C13_DataShape ==
    /\ Len(data) = Len(time)
    /\ \A t \in 1..Len(data) :
          /\ Len(data[t]) = Len(lat)
          /\ \A j \in 1..Len(data[t]) : Len(data[t][j]) = Len(lon)

\* an eval on a Field that halo calls have extended along both axes
C13_Witness ==
    /\ call.op = "eval"
    /\ Len(lon) > Len(Lon0)
    /\ Len(lat) > Len(Lat0)
    /\ Len(data[1]) = Len(lat)
    /\ Len(data[1][1]) = Len(lon)

\* the message carries the particle's state, time and dt
CarriesParticle(m, particle) ==
    m.state = particle.state /\ m.time = particle.time /\ m.dt = particle.dt

\* C14: recovery_map has an entry exactly for Error, ErrorOutOfBounds and
\* ErrorTimeExtrapolation, and each entry, called with any particle,
\* raises KernelError, OutOfBoundsError and OutOfTimeError respectively
\* (the last two derived from KernelError), with the particle's state,
\* time and dt in the message.
C14_RecoveryRaisesTypedError ==
    /\ recovery_map_codes = {ErrorCode.Error, ErrorCode.ErrorOutOfBounds,
                             ErrorCode.ErrorTimeExtrapolation}
    /\ {"OutOfBoundsError", "OutOfTimeError"} \subseteq KernelErrors
    /\ call.op = "recovery" =>
          /\ call.code = ErrorCode.Error => result.kind = "KernelError"
          /\ call.code = ErrorCode.ErrorOutOfBounds => result.kind = "OutOfBoundsError"
          /\ call.code = ErrorCode.ErrorTimeExtrapolation => result.kind = "OutOfTimeError"
          /\ CarriesParticle(result.message, call.particle)

\* C15: recovery_kernel_out_of_bounds on a particle whose exception is a
\* FieldSamplingError raises an OutOfBoundsError that reports the sampled
\* x and y, 0 included, and the name of the Field; with exception None it
\* raises an OutOfBoundsError that reports the particle's lon, lat and
\* depth.
C15_OutOfBoundsReportsCoordinates ==
    (call.op = "recovery" /\ call.code = ErrorCode.ErrorOutOfBounds) =>
        LET p == call.particle
            e == p.exception
        IN  /\ result.kind = "OutOfBoundsError"
            /\ e.kind = "FieldSamplingError" =>
                  /\ result.message.a = e.x
                  /\ result.message.b = e.y
                  /\ result.message.name = FieldName
            /\ e.kind = "none" =>
                  /\ result.message.a = p.lon
                  /\ result.message.b = p.lat
                  /\ result.message.c = p.depth

\* OutOfBoundsError constructed with the sampled coordinates reports them,
\* also when one of them is 0
OutOfBoundsErrorReportsArguments ==
    (call.op = "OutOfBoundsError" /\ call.olon # <<>> /\ call.olat # <<>>) =>
        /\ result.message.a = call.olon[1]
        /\ result.message.b = call.olat[1]

\* latitudes from the equator up to, not including, the pole
PolarLatitudes == {0, 20, 40, 60, 80}

PolarLongitudes == {0, 4, 180}

\* C16: for a positive speed v, GeographicPolar.to_target(v, x, y) is the
\* Geographic value divided by cos(latitude), equals it at the equator and
\* is strictly increasing in y over 0 <= y < 90; Geographic.to_target and
\* the identity converter return the same value at every (x, y).
C16_PolarIncreasesWithLatitude ==
    (call.op = "to_target" /\ QLt(QInt(0), call.v)) =>
        LET geographic == to_target("Geographic", call.v, call.x, call.y)
        IN  /\ units = "GeographicPolar" =>
                  /\ result.val = QDiv(geographic, Cos(call.y))
                  /\ call.y = 0 => result.val = geographic
                  /\ call.y \in PolarLatitudes =>
                        \A y2 \in PolarLatitudes :
                            call.y < y2 =>
                                QLt(result.val, to_target(units, call.v, call.x, y2))
            /\ units \in {"UnitConverter", "Geographic"} =>
                  \A x2 \in PolarLongitudes : \A y2 \in PolarLatitudes :
                      result.val = to_target(units, call.v, x2, y2)
            /\ units = "UnitConverter" => result.val = call.v
            /\ units = "Geographic" => QMul(result.val, QInt(1852 * 60)) = call.v

\* a polar conversion of a positive speed at latitude 20 that is larger
\* than the Geographic value
C16_Witness ==
    /\ call.op = "to_target"
    /\ units = "GeographicPolar"
    /\ QLt(QInt(0), call.v)
    /\ call.y = 20
    /\ QLt(to_target("Geographic", call.v, call.x, call.y), result.val)

\* the slopes a and b of a Field that is linear in lon and lat
SlopeLon == Q(data[1][1][2] - data[1][1][1], lon[2] - lon[1])

SlopeLat == Q(data[1][2][1] - data[1][1][1], lat[2] - lat[1])

\* 0-based indices of the grid points that lie on no edge of the grid
InteriorLon == 1..(Len(lon) - 2)

InteriorLat == 1..(Len(lat) - 2)

\* C17 as stated: on every grid, at every interior grid point the zonal
\* derivative Field of a*x + b*y holds a and the meridional derivative
\* Field holds b, whatever the latitude.
C17_GradientIsSlope ==
    call.op = "gradient" =>
        \A t \in 1..Len(time) : \A j \in InteriorLat : \A i \in InteriorLon :
            /\ result.dVdx[t][j + 1][i + 1] = SlopeLon
            /\ result.dVdy[t][j + 1][i + 1] = SlopeLat

\* C17 amended: on a uniformly spaced grid, at every interior grid point
\* the zonal derivative Field holds a / (r * deg2rd * cos(lat)) and the
\* meridional derivative Field holds b / (r * deg2rd): the slopes per
\* metre, the zonal one the same along a row and growing with latitude.
C17_GradientIsSlopePerMetre ==
    (call.op = "gradient" /\ Uniform(lon) /\ Uniform(lat)) =>
        \A t \in 1..Len(time) : \A j \in InteriorLat : \A i \in InteriorLon :
            /\ result.dVdx[t][j + 1][i + 1]
                   = QDiv(SlopeLon, QMul(QInt(MetresPerDegreeArc), Cos(lat[j + 1])))
            /\ result.dVdy[t][j + 1][i + 1] = QDiv(SlopeLat, QInt(MetresPerDegreeArc))

\* a gradient on a uniformly spaced grid with interior points on two
\* latitudes, where the zonal derivative differs between them
C17_Witness ==
    /\ call.op = "gradient"
    /\ Uniform(lon) /\ Uniform(lat)
    /\ Len(lon) = 4 /\ Len(lat) = 4
    /\ result.dVdx[1][2][2] # result.dVdx[1][3][2]
    /\ result.dVdx[1][2][2] = result.dVdx[2][2][3]

C18_WitnessEval ==
    /\ call.op = "eval"
    /\ units = "GeographicPolar"
    /\ call.t = Time0[2] + 1
    /\ result.kind = "value"

\* what eval(t, x, y) returns or raises when nothing is cached
UncachedEvalOf(t, x, y) == eval(<<>>, <<>>, t, x, y).res

UncachedEval == UncachedEvalOf(call.t, call.x, call.y)

\* C19 as stated: in every state reached by eval and add_periodic_halo
\* calls in any order, every cached interpolator is the one that would be
\* built now from the current lat, lon and data[k], and the last eval
\* returned what an uncached evaluation over the current arrays returns.
C19_CacheAlwaysCurrent ==
    /\ CachedInterpolatorsCurrent
    /\ call.op = "eval" => result = UncachedEval

\* C19 amended: the cached interpolators are current after construction,
\* every eval on a Field whose cached interpolators are current leaves
\* them current and returns what an uncached evaluation returns, and an
\* add_periodic_halo call made while no interpolator is cached leaves
\* them current; a halo added after a slice was cached does not.
C19_CacheCurrentUnlessHaloAfterEval ==
    [][/\ (CachedInterpolatorsCurrent /\ call'.op = "eval") =>
              (CachedInterpolatorsCurrent' /\ result' = UncachedEvalOf(call'.t, call'.x, call'.y))
       /\ (interpolator_cache = <<>> /\ call'.op = "add_periodic_halo") =>
              CachedInterpolatorsCurrent'
       /\ (CachedInterpolatorsCurrent /\ call'.op = "add_periodic_halo")
              => (CachedInterpolatorsCurrent' <=> interpolator_cache = <<>>)]_vars

\* an eval inside the halo of a Field extended before it was sampled, with
\* two current interpolators cached
C19_Witness ==
    /\ call.op = "eval"
    /\ Len(lon) > Len(Lon0)
    /\ call.x > Lon0[Len(Lon0)]
    /\ CachedInterpolatorsCurrent
    /\ Len(interpolator_cache) = CacheMaxsize
    /\ result.kind = "value"

\* t lies strictly between time[i] and time[i+1]
InBracket(t, i) == time[i + 1] < t /\ t < time[i + 2]

CacheEntries(c) == {c[k] : k \in 1..Len(c)}

\* a cache holds at most CacheMaxsize entries, under distinct keys
CacheBounded(c) == Len(c) <= CacheMaxsize /\ Cardinality(CacheKeys(c)) = Len(c)

\* what C20 says of the state an eval leaves
CachesAfterEval ==
    /\ CacheBounded(interpolator_cache)
    /\ CacheBounded(time_index_cache)
    /\ (call.op = "eval" /\ result.kind = "value") =>
          /\ call.t \in CacheKeys(time_index_cache)
          /\ \A i \in 0..(LastIndex(time) - 1) :
                InBracket(call.t, i) => CacheKeys(interpolator_cache) = {i, i + 1}

\* what C20 says of an eval that follows an eval whose time was accepted:
\* the key used last (stored or hit) is not the one evicted, at most one
\* new key enters each cache per lookup, and an eval in the bracket of a
\* blended eval before it builds no interpolator
EvalAfterEval ==
    (call.op = "eval" /\ result.kind # "TimeExtrapolationError" /\ call'.op = "eval") =>
        /\ call.t \in CacheKeys(time_index_cache')
        /\ CacheKeys(time_index_cache') \subseteq CacheKeys(time_index_cache) \cup {call'.t}
        /\ \A i \in 0..(LastIndex(time) - 1) :
              (result.kind = "value" /\ InBracket(call.t, i) /\ InBracket(call'.t, i)) =>
                  CacheEntries(interpolator_cache') = CacheEntries(interpolator_cache)

\* C20: after any sequence of evals each cache holds at most 2 entries; a
\* third key evicts the least recently used one, a hit counting as a use;
\* directly after a blended eval with time[i] < t < time[i+1] the
\* interpolator cache holds exactly the keys i and i+1, and another eval
\* in that bracket builds no interpolator.
C20_CachesBoundedLRU == []CachesAfterEval /\ [][EvalAfterEval]_vars

\* a blended eval in the second bracket that left both caches full
C20_Witness ==
    /\ call.op = "eval"
    /\ result.kind = "value"
    /\ InBracket(call.t, 1)
    /\ CacheKeys(interpolator_cache) = {1, 2}
    /\ Len(time_index_cache) = CacheMaxsize
    /\ time_index_cache[1].key < time[2]

\* what C21 says of one step that is an eval, time_index or gradient call
ReadOnlyStep ==
    call'.op \in {"eval", "time_index", "gradient", "gradient_range"} =>
        /\ UNCHANGED <<data, lon, lat, time, units, allow_time_extrapolation>>
        /\ result'.kind = "TimeExtrapolationError" =>
              CacheKeys(time_index_cache') = CacheKeys(time_index_cache)

C22_GradientOverSubrange ==
    (call.op = "gradient_range" /\ call.timerange # <<>>) =>
        LET i0 == range_first(time, call.timerange)
            i1 == range_last(time, call.timerange)
        IN  /\ result.kind = "fields"
            /\ result.time = SubSeq(time, i0 + 1, i1 + 1)
            /\ result.lon = range_select(lon, call.lonrange)
            /\ result.lat = range_select(lat, call.latrange)
            /\ Len(result.dVdx) = i1 - i0 + 1
            /\ \A k \in 0..(i1 - i0) :
                  /\ result.dVdx[k + 1]
                         = range_grad(i0 + k, call.lonrange, call.latrange).dVdx
                  /\ result.dVdy[k + 1]
                         = range_grad(i0 + k, call.lonrange, call.latrange).dVdy

\* a position outside the lon/lat domain of the Field
OutsideDomain(x, y) ==
    \/ x < lon[1] \/ x > lon[Len(lon)]
    \/ y < lat[1] \/ y > lat[Len(lat)]

\* a time outside [time[0], time[-1]]
OutsideTime(t) == t < time[1] \/ t > time[Len(time)]

TimeErrorFirstStep ==
    (/\ call'.op = "eval"
     /\ ~allow_time_extrapolation
     /\ OutsideTime(call'.t)
     /\ OutsideDomain(call'.x, call'.y)) =>
        /\ result'.kind = "TimeExtrapolationError"
        /\ interpolator_cache' = interpolator_cache

\* C23: eval resolves the time index before it samples in space: without
\* time extrapolation, a query whose time is outside [time[0], time[-1]]
\* and whose position is outside the lon/lat domain raises
\* TimeExtrapolationError, not FieldSamplingError, and builds no
\* interpolator.
C23_TimeErrorBeforeSampling == [][TimeErrorFirstStep]_vars

\* such a query answered on a Field whose interpolators were built by
\* earlier queries
C23_Witness ==
    /\ call.op = "eval"
    /\ ~allow_time_extrapolation
    /\ OutsideTime(call.t)
    /\ OutsideDomain(call.x, call.y)
    /\ result.kind = "TimeExtrapolationError"
    /\ Len(interpolator_cache) > 0

====
